---------------------------- MODULE Spec2Model ----------------------------
(***************************************************************************)
(* Model of the statistical data visualization web application (app.py):   *)
(* the upload handler upload_file with its staging directory, the file     *)
(* loader load_data_file, the characteristic extractor                     *)
(* get_data_characteristics and the chart generator create_visualizations. *)
(*                                                                         *)
(* Strings that the code takes apart (file names, paths) are sequences of  *)
(* one-character strings.  A pandas DataFrame is a record with an ordered  *)
(* sequence of columns; a column has a name, a dtype and a sequence of     *)
(* cells; a cell is a record [kind, v].  Floating point results are exact  *)
(* fractions [tag, num, den] or symbolic terms of the library function     *)
(* that produced them.                                                     *)
(***************************************************************************)
EXTENDS Integers, Sequences, FiniteSets, TLC

VARIABLES
    \* ---- upload_file, one thread per request (Spec)
    pc,          \* position of each request's handler
    request,     \* what each request carries: file part, filename, body
    filepath,    \* each handler's local variable filepath
    df,          \* each handler's local variable df
    outcome,     \* each handler's local results: characteristics, charts, error stage
    flashed,     \* messages flashed to each request's user, in order
    response,    \* the response each request got
    uploads,     \* the upload folder: path -> staged file or NoFile
    touched,     \* history: accesses of one request to a file staged by another
    \* ---- load_data_file on its own (SpecLoad)
    load_path,   \* the path handed to load_data_file
    load_body,   \* the file found at that path
    load_result, \* what the call did
    \* ---- get_data_characteristics / create_visualizations (SpecAnalysis)
    table,           \* the DataFrame under analysis
    stage,           \* "loaded", "extracted", "visualized" or "raised"
    sort_ties,       \* the order this build's sort leaves equal counts in
    characteristics, \* result of get_data_characteristics
    visualizations,  \* result of create_visualizations
    \* ---- demo_server.StatisticalServer (SpecDemo)
    get_path,        \* self.path of the GET request
    files,           \* the server's working directory: file name -> entry
    reply            \* what the handler sent

uploadVars == <<pc, request, filepath, df, outcome, flashed, response, uploads, touched>>
loadVars == <<load_path, load_body, load_result>>
analysisVars == <<table, stage, sort_ties, characteristics, visualizations>>
demoVars == <<get_path, files, reply>>
vars == <<uploadVars, loadVars, analysisVars, demoVars>>

-----------------------------------------------------------------------------
(* Bounds of the input spaces *)

\* columns of the wide tables (one row at most, many columns)
MaxWideCols == 7
\* rows of the deep tables (two columns at most)
MaxDeepRows == 3
\* distinct labels of the long categorical columns
MaxLabels == 11
\* repeated cells appended to a long categorical column
MaxRepeats == 2
\* columns of a two-row table
MaxPairCols == 4

-----------------------------------------------------------------------------
(* Generic helpers *)

Min(a, b) == IF a <= b THEN a ELSE b

Range(s) == {s[i] : i \in DOMAIN s}

\* s[1..n], as Python's s[:n]
Head_n(s, n) == SubSeq(s, 1, Min(n, Len(s)))

RECURSIVE SeqSum(_)
SeqSum(s) == IF s = <<>> THEN 0 ELSE Head(s) + SeqSum(Tail(s))

RECURSIVE Insert(_, _)
Insert(x, s) ==
    IF s = <<>> THEN <<x>>
    ELSE IF x <= Head(s) THEN <<x>> \o s
    ELSE <<Head(s)>> \o Insert(x, Tail(s))

RECURSIVE SortInts(_)
SortInts(s) == IF s = <<>> THEN <<>> ELSE Insert(Head(s), SortInts(Tail(s)))

\* all sequences over S of length exactly n
SeqsOfLen(S, n) == [1..n -> S]

\* all sequences over S of length at most n
SeqsUpTo(S, n) == UNION {SeqsOfLen(S, k) : k \in 0..n}


-----------------------------------------------------------------------------
(* Cells, columns, tables *)

NaN == [kind |-> "nan", v |-> 0]
Num(n) == [kind |-> "num", v |-> n]
Str(i) == [kind |-> "str", v |-> i]
Bool(b) == [kind |-> "bool", v |-> b]
\* a nested JSON array or object: an unhashable Python list / dict
Nested(i) == [kind |-> "list", v |-> i]

Column(name, dtype, values) == [name |-> name, dtype |-> dtype, values |-> values]

DataFrame(columns, nrows) == [type |-> "DataFrame", columns |-> columns, nrows |-> nrows]

\* Python's None where a DataFrame is expected
PyNone == [type |-> "NoneType", columns |-> <<>>, nrows |-> 0]

\* pandas isna on one cell
isna(c) == c.kind = "nan"

\* Series.dropna
dropna(values) == SelectSeq(values, LAMBDA c : ~isna(c))

\* Series.isna().all(): true of an empty Series
isna_all(values) == \A i \in DOMAIN values : isna(values[i])

\* the dtypes np.number covers and the ones 'object', 'category' cover
NumberDtypes == {"int64", "float64"}
ObjectDtypes == {"object", "category"}

\* df.select_dtypes(include=[np.number]).columns, in the table's column order
numerical_cols(t) == SelectSeq(t.columns, LAMBDA c : c.dtype \in NumberDtypes)

\* df.select_dtypes(include=['object', 'category']).columns
categorical_cols(t) == SelectSeq(t.columns, LAMBDA c : c.dtype \in ObjectDtypes)

-----------------------------------------------------------------------------
(* Floating point results *)

\* Python's None in the place of a statistic
None == [tag |-> "None", num |-> 0, den |-> 0]

\* the float nan
FloatNaN == [tag |-> "nan", num |-> 0, den |-> 0]

\* the float num / den
Frac(n, d) == [tag |-> "float", num |-> n, den |-> d]

\* a float the library computes from two integer sums: sqrt(num / den) for "sqrt",
\* the standardized moment of the scaled central sums for "skew" and "kurt"
Term(tag, n, d) == [tag |-> tag, num |-> n, den |-> d]

\* the numbers of the non-missing cells of a numeric column (skipna=True)
Numbers(values) == [i \in DOMAIN dropna(values) |-> dropna(values)[i].v]

\* sum over the cells of (n * x - sum(x)) ^ k: the k-th central sum scaled by n ^ k
CentralSum(xs, k) ==
    LET n == Len(xs)
        s == SeqSum(xs)
    IN  SeqSum([i \in DOMAIN xs |-> (n * xs[i] - s) ^ k])

\* Series.mean
mean(values) ==
    LET xs == Numbers(values)
    IN  IF xs = <<>> THEN FloatNaN ELSE Frac(SeqSum(xs), Len(xs))

\* Series.median
median(values) ==
    LET xs == SortInts(Numbers(values))
        n == Len(xs)
    IN  IF n = 0 THEN FloatNaN
        ELSE IF n % 2 = 1 THEN Frac(xs[(n + 1) \div 2], 1)
        ELSE Frac(xs[n \div 2] + xs[n \div 2 + 1], 2)

\* Series.std: the sample standard deviation (ddof=1), nan below two values
std(values) ==
    LET xs == Numbers(values)
        n == Len(xs)
    IN  IF n < 2 THEN FloatNaN
        ELSE Term("sqrt", n * SeqSum([i \in DOMAIN xs |-> xs[i] * xs[i]])
                            - SeqSum(xs) * SeqSum(xs), n * (n - 1))

\* Series.min
min(values) ==
    LET xs == SortInts(Numbers(values))
    IN  IF xs = <<>> THEN FloatNaN ELSE Frac(xs[1], 1)

\* Series.max
max(values) ==
    LET xs == SortInts(Numbers(values))
    IN  IF xs = <<>> THEN FloatNaN ELSE Frac(xs[Len(xs)], 1)

\* Series.quantile(k / 4), linear interpolation between the two nearest ranks
quantile(values, k) ==
    LET xs == SortInts(Numbers(values))
        n == Len(xs)
        pos4 == (n - 1) * k
        i == pos4 \div 4 + 1
        f == pos4 % 4
    IN  IF n = 0 THEN FloatNaN
        ELSE IF f = 0 THEN Frac(4 * xs[i], 4)
        ELSE Frac(4 * xs[i] + (xs[i + 1] - xs[i]) * f, 4)

\* Series.skew: nan below three values, 0.0 for a constant column
skew(values) ==
    LET xs == Numbers(values)
    IN  IF Len(xs) < 3 THEN FloatNaN
        ELSE IF CentralSum(xs, 2) = 0 THEN Frac(0, 1)
        ELSE Term("skew", CentralSum(xs, 3), CentralSum(xs, 2))

\* Series.kurtosis: nan below four values, 0.0 for a constant column
kurtosis(values) ==
    LET xs == Numbers(values)
    IN  IF Len(xs) < 4 THEN FloatNaN
        ELSE IF CentralSum(xs, 2) = 0 THEN Frac(0, 1)
        ELSE Term("kurt", CentralSum(xs, 4), CentralSum(xs, 2))

\* round(a / b, 2) of two naturals with b > 0, in hundredths, ties to even
RoundHundredths(a, b) ==
    LET q == (a * 100) \div b
        r == (a * 100) % b
    IN  IF 2 * r > b \/ (2 * r = b /\ q % 2 = 1) THEN q + 1 ELSE q

\* df.isnull().sum(): the missing cells of one column
missing_count(col) == Len(SelectSeq(col.values, isna))

\* (df.isnull().sum() / len(df) * 100).round(2) for one column: a float with two
\* decimals, kept as num hundredths; dividing by zero rows gives 0 / 0 = nan
missing_percentage(col, nrows) ==
    IF nrows = 0 THEN FloatNaN
    ELSE Frac(RoundHundredths(missing_count(col) * 100, nrows), 100)

-----------------------------------------------------------------------------
(* Series.value_counts *)

NoneCell == [kind |-> "None", v |-> 0]

\* str(value): a text cell is its own text, any other cell the text of its value
py_str(c) == IF c.kind = "str" THEN c ELSE [kind |-> "str(" \o c.kind \o ")", v |-> c.v]

RECURSIVE Uniques(_)
\* the distinct cells of a sequence in the order of their first occurrence
Uniques(values) ==
    IF values = <<>> THEN <<>>
    ELSE LET rest == Uniques(SubSeq(values, 1, Len(values) - 1))
             last == values[Len(values)]
         IN  IF last \in Range(rest) THEN rest ELSE Append(rest, last)

CountOf(values, c) == Cardinality({i \in DOMAIN values : values[i] = c})

\* The orders sort_values may leave equal counts in: value_counts sorts the counts
\* with sort_values(ascending=False) under its default kind 'quicksort', which is
\* not a stable sort, so the order among equal counts is not fixed by the call.
TieOrders == {"first_seen", "last_seen"}

RECURSIVE InsertByCount(_, _, _)
InsertByCount(e, s, tie) ==
    IF s = <<>> THEN <<e>>
    ELSE IF Head(s).count < e.count \/ (tie = "last_seen" /\ Head(s).count = e.count)
         THEN <<e>> \o s
    ELSE <<Head(s)>> \o InsertByCount(e, Tail(s), tie)

RECURSIVE sort_values_desc(_, _)
\* Series.sort_values(ascending=False) of the counts: descending by count, equal
\* counts in the order `tie` names
sort_values_desc(s, tie) ==
    IF s = <<>> THEN <<>>
    ELSE InsertByCount(s[Len(s)], sort_values_desc(SubSeq(s, 1, Len(s) - 1), tie), tie)

\* whether value_counts / nunique raise TypeError: a cell that cannot be hashed
unhashable(values) == \E i \in DOMAIN values : values[i].kind = "list"

\* Series.value_counts(): the non-missing values with their counts, most frequent
\* first (dropna=True, sort=True)
value_counts(values, tie) ==
    LET present == dropna(values)
        keys == Uniques(present)
    IN  sort_values_desc([i \in DOMAIN keys |->
                            [value |-> keys[i], count |-> CountOf(present, keys[i])]], tie)

\* Series.nunique()
nunique(values) == Len(Uniques(dropna(values)))

\* the cap of value_counts.head(10)
TopN == 10

\* head keeping one entry too many
head_one_more(s, n) == Head_n(s, n + 1)

\* Series.head(n)
head(s, n) == Head_n(s, n)

-----------------------------------------------------------------------------
(* get_data_characteristics *)

\* numerical_stat guarding on an empty column instead of an entirely missing one
numerical_stat_empty_guard(col) ==
    LET v == col.values
        empty == v = <<>>
    IN  [col |-> col.name,
         mean |-> IF ~empty THEN mean(v) ELSE None,
         median |-> IF ~empty THEN median(v) ELSE None,
         std |-> IF ~empty THEN std(v) ELSE None,
         min |-> IF ~empty THEN min(v) ELSE None,
         max |-> IF ~empty THEN max(v) ELSE None,
         q25 |-> IF ~empty THEN quantile(v, 1) ELSE None,
         q75 |-> IF ~empty THEN quantile(v, 3) ELSE None,
         skewness |-> IF ~empty THEN skew(v) ELSE None,
         kurtosis |-> IF ~empty THEN kurtosis(v) ELSE None]

\* the numerical_stats entry of one numeric column
numerical_stat(col) ==
    LET v == col.values
    IN  [col |-> col.name,
         mean |-> IF ~isna_all(v) THEN mean(v) ELSE None,
         median |-> IF ~isna_all(v) THEN median(v) ELSE None,
         std |-> IF ~isna_all(v) THEN std(v) ELSE None,
         min |-> IF ~isna_all(v) THEN min(v) ELSE None,
         max |-> IF ~isna_all(v) THEN max(v) ELSE None,
         q25 |-> IF ~isna_all(v) THEN quantile(v, 1) ELSE None,
         q75 |-> IF ~isna_all(v) THEN quantile(v, 3) ELSE None,
         skewness |-> IF ~isna_all(v) THEN skew(v) ELSE None,
         kurtosis |-> IF ~isna_all(v) THEN kurtosis(v) ELSE None]

\* the categorical_stats entry of one object / category column
categorical_stat(col, tie) ==
    LET vc == value_counts(col.values, tie)
    IN  [col |-> col.name,
         unique_values |-> nunique(col.values),
         most_frequent |-> IF Len(vc) > 0 THEN py_str(vc[1].value) ELSE NoneCell,
         most_frequent_count |-> IF Len(vc) > 0 THEN Num(vc[1].count) ELSE NoneCell,
         value_counts |-> head(vc, TopN)]

\* what a call that raised leaves behind
NoCharacteristics ==
    [raised |-> TRUE,
     basic_info |-> [rows |-> 0, columns |-> 0, column_names |-> <<>>, data_types |-> <<>>],
     missing_data |-> [missing_counts |-> <<>>, missing_percentages |-> <<>>],
     numerical_stats |-> <<>>,
     categorical_stats |-> <<>>]

\* get_data_characteristics(df).  Dictionaries keyed by column are sequences of
\* entries in insertion order, which is the table's column order.  memory_usage is
\* left out: it is a byte estimate of the library that nothing else reads.
\* The call raises TypeError on None (len) and on an object column holding an
\* unhashable cell (value_counts, nunique).
get_data_characteristics(t, tie) ==
    IF t.type # "DataFrame" THEN NoCharacteristics
    ELSE IF \E i \in DOMAIN categorical_cols(t) : unhashable(categorical_cols(t)[i].values)
    THEN NoCharacteristics
    ELSE
    [raised |-> FALSE,
     basic_info |->
        [rows |-> t.nrows,
         columns |-> Len(t.columns),
         column_names |-> [i \in DOMAIN t.columns |-> t.columns[i].name],
         data_types |-> [i \in DOMAIN t.columns |->
                            [col |-> t.columns[i].name, dtype |-> t.columns[i].dtype]]],
     missing_data |->
        [missing_counts |-> [i \in DOMAIN t.columns |->
            [col |-> t.columns[i].name, count |-> missing_count(t.columns[i])]],
         missing_percentages |-> [i \in DOMAIN t.columns |->
            [col |-> t.columns[i].name,
             percentage |-> missing_percentage(t.columns[i], t.nrows)]]],
     numerical_stats |->
        [i \in DOMAIN numerical_cols(t) |-> numerical_stat(numerical_cols(t)[i])],
     categorical_stats |->
        [i \in DOMAIN categorical_cols(t) |-> categorical_stat(categorical_cols(t)[i], tie)]]

-----------------------------------------------------------------------------
(* create_visualizations *)

\* the caps numerical_cols[:5], [:3], [:4] and [:3] of the four capped charts
SummaryCap == 5
DistCap == 3
BoxCap == 4
ScatterCap == 3

\* characteristics['numerical_stats'][col]
stats_of(ch, name) ==
    LET hits == SelectSeq(ch.numerical_stats, LAMBDA e : e.col = name)
    IN  hits[1]

\* 1. go.Bar per column of numerical_cols[:5]
fig_summary(t, ch) ==
    LET cols == Head_n(numerical_cols(t), SummaryCap)
    IN  [type |-> "bar",
         traces |-> [i \in DOMAIN cols |->
            LET stats_data == stats_of(ch, cols[i].name)
            IN  [name |-> cols[i].name,
                 x |-> <<"Mean", "Median", "Std", "Min", "Max">>,
                 y |-> <<stats_data.mean, stats_data.median, stats_data.std,
                         stats_data.min, stats_data.max>>]]]

\* fig_dist plotting the missing cells too
fig_dist_keep_missing(t) ==
    LET cols == Head_n(numerical_cols(t), DistCap)
    IN  [type |-> "histogram",
         traces |-> [i \in DOMAIN cols |-> [name |-> cols[i].name, x |-> cols[i].values]]]

\* 2. go.Histogram per column of numerical_cols[:3]
fig_dist(t) ==
    LET cols == Head_n(numerical_cols(t), DistCap)
    IN  [type |-> "histogram",
         traces |-> [i \in DOMAIN cols |->
            [name |-> cols[i].name, x |-> dropna(cols[i].values)]]]

\* one cell of DataFrame.corr(): Pearson correlation over the rows where both
\* columns are present; nan when either column is constant over those rows
corr_cell(a, b) ==
    LET rows == {r \in DOMAIN a.values : ~isna(a.values[r]) /\ ~isna(b.values[r])}
        n == Cardinality(rows)
        idx == SelectSeq([r \in DOMAIN a.values |-> r], LAMBDA r : r \in rows)
        xs == [k \in DOMAIN idx |-> a.values[idx[k]].v]
        ys == [k \in DOMAIN idx |-> b.values[idx[k]].v]
        sxx == n * SeqSum([k \in DOMAIN xs |-> xs[k] * xs[k]]) - SeqSum(xs) * SeqSum(xs)
        syy == n * SeqSum([k \in DOMAIN ys |-> ys[k] * ys[k]]) - SeqSum(ys) * SeqSum(ys)
        sxy == n * SeqSum([k \in DOMAIN xs |-> xs[k] * ys[k]]) - SeqSum(xs) * SeqSum(ys)
    IN  IF sxx = 0 \/ syy = 0 THEN FloatNaN ELSE Term("corr", sxy, sxx * syy)

\* 3. go.Heatmap of df[numerical_cols].corr(), over all numeric columns
fig_corr(t) ==
    LET cols == numerical_cols(t)
    IN  [type |-> "heatmap",
         x |-> [i \in DOMAIN cols |-> cols[i].name],
         y |-> [i \in DOMAIN cols |-> cols[i].name],
         z |-> [i \in DOMAIN cols |-> [j \in DOMAIN cols |-> corr_cell(cols[i], cols[j])]]]

\* fig_box taking the last four numeric columns
fig_box_last(t) ==
    LET all == numerical_cols(t)
        cols == SubSeq(all, Len(all) - Min(Len(all), BoxCap) + 1, Len(all))
    IN  [type |-> "box",
         traces |-> [i \in DOMAIN cols |->
            [name |-> cols[i].name, y |-> dropna(cols[i].values)]]]

\* 4. go.Box per column of numerical_cols[:4]
fig_box(t) ==
    LET cols == Head_n(numerical_cols(t), BoxCap)
    IN  [type |-> "box",
         traces |-> [i \in DOMAIN cols |->
            [name |-> cols[i].name, y |-> dropna(cols[i].values)]]]

\* 5. go.Bar of value_counts().head(10) of categorical_cols[0]
fig_cat(t, tie) ==
    LET col == categorical_cols(t)[1]
        vc == head(value_counts(col.values, tie), TopN)
    IN  [type |-> "bar",
         title |-> col.name,
         traces |-> << [x |-> [i \in DOMAIN vc |-> vc[i].value],
                        y |-> [i \in DOMAIN vc |-> vc[i].count]] >>]

\* DataFrame.dropna() of df[cols]: the rows with no missing cell in any of cols
complete_rows(cols, nrows) ==
    SelectSeq([r \in 1..nrows |-> r],
              LAMBDA r : \A i \in DOMAIN cols : ~isna(cols[i].values[r]))

\* the scatter matrix over the rows with no missing cell in any column at all
fig_scatter_dropna_all(t) ==
    LET cols_for_scatter == Head_n(numerical_cols(t), ScatterCap)
        rows == complete_rows(t.columns, t.nrows)
    IN  [type |-> "splom",
         rows |-> rows,
         dimensions |-> [i \in DOMAIN cols_for_scatter |->
            [label |-> cols_for_scatter[i].name,
             values |-> [k \in DOMAIN rows |-> cols_for_scatter[i].values[rows[k]]]]]]

\* 6. px.scatter_matrix(df[cols_for_scatter].dropna(), dimensions=cols_for_scatter)
fig_scatter(t) ==
    LET cols_for_scatter == Head_n(numerical_cols(t), ScatterCap)
        rows == complete_rows(cols_for_scatter, t.nrows)
    IN  [type |-> "splom",
         rows |-> rows,
         dimensions |-> [i \in DOMAIN cols_for_scatter |->
            [label |-> cols_for_scatter[i].name,
             values |-> [k \in DOMAIN rows |-> cols_for_scatter[i].values[rows[k]]]]]]

\* slots with the heatmap drawn from one numeric column on
slots_corr_from_one(t) ==
    (IF Len(numerical_cols(t)) > 0
        THEN {"summary_stats", "distributions", "correlation", "boxplots"} ELSE {})
    \cup (IF Len(categorical_cols(t)) > 0 THEN {"categorical"} ELSE {})
    \cup (IF Len(numerical_cols(t)) >= 2 THEN {"scatter_matrix"} ELSE {})

\* the slots create_visualizations fills for a table
slots(t) ==
    (IF Len(numerical_cols(t)) > 0 THEN {"summary_stats"} ELSE {})
    \cup (IF Len(numerical_cols(t)) > 0 THEN {"distributions"} ELSE {})
    \cup (IF Len(numerical_cols(t)) > 1 THEN {"correlation"} ELSE {})
    \cup (IF Len(numerical_cols(t)) > 0 THEN {"boxplots"} ELSE {})
    \cup (IF Len(categorical_cols(t)) > 0 THEN {"categorical"} ELSE {})
    \cup (IF Len(numerical_cols(t)) >= 2 THEN {"scatter_matrix"} ELSE {})

\* create_visualizations(df, characteristics): the dictionary slot -> figure
create_visualizations(t, ch, tie) ==
    [s \in slots(t) |->
        CASE s = "summary_stats" -> fig_summary(t, ch)
          [] s = "distributions" -> fig_dist(t)
          [] s = "correlation" -> fig_corr(t)
          [] s = "boxplots" -> fig_box(t)
          [] s = "categorical" -> fig_cat(t, tie)
          [] s = "scatter_matrix" -> fig_scatter(t)]

-----------------------------------------------------------------------------
(* The tables the analysis is run on *)

ColNames == <<"a", "b", "c", "d", "e", "f", "g", "h">>

\* names the columns of a sequence of [dtype, values] by position
Named(cols) == [i \in DOMAIN cols |-> Column(ColNames[i], cols[i].dtype, cols[i].values)]

\* Wide tables: up to MaxWideCols columns of one row, each an entirely missing
\* float64 column, an int64 column, an object column or a bool column.
WideColumns ==
    {[dtype |-> "float64", values |-> <<NaN>>],
     [dtype |-> "int64", values |-> <<Num(1)>>],
     [dtype |-> "object", values |-> <<Str(1)>>],
     [dtype |-> "bool", values |-> <<Bool(1)>>]}

WideTable(cols) == DataFrame(Named(cols), IF cols = <<>> THEN 0 ELSE 1)

\* Deep tables: one or two columns of n <= MaxDeepRows rows.  float64 and object
\* columns may miss cells, int64 and bool columns may not; an object column may
\* hold nested JSON values.
DeepColumns(n) ==
    {[dtype |-> "float64", values |-> v] : v \in SeqsOfLen({NaN, Num(1), Num(2)}, n)}
    \cup {[dtype |-> "int64", values |-> v] : v \in SeqsOfLen({Num(1), Num(3)}, n)}
    \cup {[dtype |-> "object", values |-> v] : v \in SeqsOfLen({NaN, Str(1), Str(2)}, n)}
    \cup {[dtype |-> "object", values |-> [i \in 1..n |-> Nested(1)]],
          [dtype |-> "bool", values |-> [i \in 1..n |-> Bool(1)]]}

DeepTable(cols, n) == DataFrame(Named(cols), n)

\* Long tables: one object column that shows n <= MaxLabels distinct labels in
\* turn and then repeats up to MaxRepeats cells, each a shown label or missing.
LongTable(n, rep) ==
    DataFrame(Named(<<[dtype |-> "object", values |-> [i \in 1..n |-> Str(i)] \o rep]>>),
              n + Len(rep))

\* Pair tables: two to MaxPairCols columns of two rows, each a float64 column
\* with any cell missing or an object column with one cell missing.
PairColumns ==
    {[dtype |-> "float64", values |-> v] : v \in SeqsOfLen({NaN, Num(1)}, 2)}
    \cup {[dtype |-> "object", values |-> <<NaN, Str(1)>>],
          [dtype |-> "object", values |-> <<Str(1), NaN>>]}

PairTable(cols) == DataFrame(Named(cols), 2)

\* the table handed to the analysis
InitTable ==
    \/ \E cols \in SeqsUpTo(WideColumns, MaxWideCols) : table = WideTable(cols)
    \/ \E n \in 0..MaxDeepRows :
            LET columns == DeepColumns(n)
            IN  \E a \in columns :
                    \/ table = DeepTable(<<a>>, n)
                    \/ \E b \in columns : table = DeepTable(<<a, b>>, n)
    \/ \E n \in 0..MaxLabels :
            \E rep \in SeqsUpTo({NaN} \cup {Str(i) : i \in 1..n}, MaxRepeats) :
                table = LongTable(n, rep)
    \/ \E k \in 2..MaxPairCols :
            \E cols \in SeqsOfLen(PairColumns, k) : table = PairTable(cols)

-----------------------------------------------------------------------------
(* Specification of the analysis: extract, then generate the charts *)

NotExtracted == [NoCharacteristics EXCEPT !.raised = FALSE]
NoCharts == [s \in {} |-> 0]

AnalysisIdle ==
    /\ table = PyNone
    /\ stage = "idle"
    /\ sort_ties = "first_seen"
    /\ characteristics = NotExtracted
    /\ visualizations = NoCharts

UploadIdle ==
    /\ pc = <<>>
    /\ request = <<>>
    /\ filepath = <<>>
    /\ df = <<>>
    /\ outcome = <<>>
    /\ flashed = <<>>
    /\ response = <<>>
    /\ uploads = <<>>
    /\ touched = {}

LoadIdle ==
    /\ load_path = <<>>
    /\ load_body = <<>>
    /\ load_result = <<>>

DemoIdle ==
    /\ get_path = <<>>
    /\ files = <<>>
    /\ reply = <<>>

InitAnalysis ==
    /\ InitTable
    /\ stage = "loaded"
    /\ sort_ties \in TieOrders
    /\ characteristics = NotExtracted
    /\ visualizations = NoCharts
    /\ UploadIdle
    /\ LoadIdle
    /\ DemoIdle

\* characteristics = get_data_characteristics(df)
Extract ==
    /\ stage = "loaded"
    /\ characteristics' = get_data_characteristics(table, sort_ties)
    /\ stage' = IF characteristics'.raised THEN "raised" ELSE "extracted"
    /\ UNCHANGED <<table, sort_ties, visualizations, uploadVars, loadVars, demoVars>>

\* visualizations = create_visualizations(df, characteristics)
Visualize ==
    /\ stage = "extracted"
    /\ visualizations' = create_visualizations(table, characteristics, sort_ties)
    /\ stage' = "visualized"
    /\ UNCHANGED <<table, sort_ties, characteristics, uploadVars, loadVars, demoVars>>

NextAnalysis == Extract \/ Visualize

SpecAnalysis == InitAnalysis /\ [][NextAnalysis]_vars

-----------------------------------------------------------------------------
(* Strings: file names and paths are sequences of one-character strings *)

UpperCase == <<"A", "B", "C", "D", "E", "F", "G", "H", "I", "J", "K", "L", "M",
               "N", "O", "P", "Q", "R", "S", "T", "U", "V", "W", "X", "Y", "Z">>
LowerCase == <<"a", "b", "c", "d", "e", "f", "g", "h", "i", "j", "k", "l", "m",
               "n", "o", "p", "q", "r", "s", "t", "u", "v", "w", "x", "y", "z">>
Digits == <<"0", "1", "2", "3", "4", "5", "6", "7", "8", "9">>

\* str.lower() on one character
lower_char(c) ==
    IF \E i \in DOMAIN UpperCase : UpperCase[i] = c
    THEN LowerCase[CHOOSE i \in DOMAIN UpperCase : UpperCase[i] = c]
    ELSE c

\* str.lower()
lower(str) == [i \in DOMAIN str |-> lower_char(str[i])]

\* '.' in filename
has_dot(str) == \E i \in DOMAIN str : str[i] = "."

\* the position of the last '.' of a string that has one
last_dot(str) == CHOOSE i \in DOMAIN str :
                    str[i] = "." /\ \A j \in DOMAIN str : str[j] = "." => j <= i

\* str.rsplit('.', 1)[1]: what follows the last '.'; IndexError without a '.'
rsplit_ext(str) == SubSeq(str, last_dot(str) + 1, Len(str))

ALLOWED_EXTENSIONS ==
    {<<"c", "s", "v">>, <<"x", "l", "s", "x">>, <<"x", "l", "s">>,
     <<"j", "s", "o", "n">>, <<"t", "x", "t">>}

\* allowed_file accepting every name with a '.'
allowed_file_any_dot(filename) == has_dot(filename)

\* allowed_file(filename)
allowed_file(filename) ==
    has_dot(filename) /\ lower(rsplit_ext(filename)) \in ALLOWED_EXTENSIONS

-----------------------------------------------------------------------------
(* load_data_file *)

\* A file is what each pandas reader makes of it: a table, or an exception.
Parsers == {"csv", "excel", "json", "tab", "space"}

ParserError == [type |-> "ParserError", columns |-> <<>>, nrows |-> 0]

\* no file at the path: every reader raises FileNotFoundError
NoFile == [p \in Parsers |-> [type |-> "FileNotFoundError", columns |-> <<>>, nrows |-> 0]]

\* pd.read_csv(filepath), pd.read_excel(filepath), pd.read_json(filepath),
\* pd.read_csv(filepath, sep='\t'), pd.read_csv(filepath, sep=' ') on a file
read(body, parser) == body[parser]

raises(r) == r.type # "DataFrame"

\* a return of load_data_file; calls lists the readers run, in order
Returned(t) == [ret |-> "return", value |-> t, error |-> "", cause |-> "", calls |-> <<>>]

\* raise ValueError(f"Error loading file: {str(e)}")
RaisedValueError(cause) ==
    [ret |-> "raise", value |-> PyNone, error |-> "ValueError: Error loading file",
     cause |-> cause, calls |-> <<>>]

\* what a reader's result becomes inside the try block of load_data_file
ReturnOrWrap(r) == IF raises(r) THEN RaisedValueError(r.type) ELSE Returned(r)

\* the outcome of load_data_file after running the readers of parsers in turn
Calling(parsers, result) == [result EXCEPT !.calls = parsers]

\* load_data_file with a .txt file read as tab-separated only
load_data_file_no_fallback(path, body) ==
    IF ~has_dot(path) THEN RaisedValueError("IndexError: list index out of range")
    ELSE LET file_ext == lower(rsplit_ext(path))
         IN  CASE file_ext = <<"c", "s", "v">> ->
                    Calling(<<"csv">>, ReturnOrWrap(read(body, "csv")))
               [] file_ext \in {<<"x", "l", "s", "x">>, <<"x", "l", "s">>} ->
                    Calling(<<"excel">>, ReturnOrWrap(read(body, "excel")))
               [] file_ext = <<"j", "s", "o", "n">> ->
                    Calling(<<"json">>, ReturnOrWrap(read(body, "json")))
               [] file_ext = <<"t", "x", "t">> ->
                    Calling(<<"tab">>, ReturnOrWrap(read(body, "tab")))
               [] OTHER -> Returned(PyNone)

\* load_data_file(filepath): the reader is picked by the lower-cased text after the
\* last '.' of the whole path; a path without '.' raises IndexError inside the try
\* block; an extension matching no branch falls off the if / elif chain, and the
\* function returns None.
load_data_file(path, body) ==
    IF ~has_dot(path) THEN RaisedValueError("IndexError: list index out of range")
    ELSE LET file_ext == lower(rsplit_ext(path))
         IN  CASE file_ext = <<"c", "s", "v">> ->
                    Calling(<<"csv">>, ReturnOrWrap(read(body, "csv")))
               [] file_ext \in {<<"x", "l", "s", "x">>, <<"x", "l", "s">>} ->
                    Calling(<<"excel">>, ReturnOrWrap(read(body, "excel")))
               [] file_ext = <<"j", "s", "o", "n">> ->
                    Calling(<<"json">>, ReturnOrWrap(read(body, "json")))
               [] file_ext = <<"t", "x", "t">> ->
                    IF ~raises(read(body, "tab"))
                    THEN Calling(<<"tab">>, Returned(read(body, "tab")))
                    ELSE Calling(<<"tab", "space">>, ReturnOrWrap(read(body, "space")))
               [] OTHER -> Returned(PyNone)

-----------------------------------------------------------------------------
(* Specification of load_data_file called on its own *)

UPLOAD_FOLDER == <<"u", "p", "l", "o", "a", "d", "s">>

\* os.path.join(app.config['UPLOAD_FOLDER'], filename) for a name without '/'
path_join(folder, filename) == folder \o <<"/">> \o filename

Stems == {<<>>, <<"a">>, <<"a", ".", "b">>}

Extensions ==
    {<<>>, <<".">>, <<".", "c", "s", "v">>, <<".", "C", "S", "V">>, <<".", "C", "s", "v">>,
     <<".", "x", "l", "s", "x">>, <<".", "x", "l", "s">>, <<".", "j", "s", "o", "n">>,
     <<".", "t", "x", "t">>, <<".", "T", "x", "t">>, <<".", "b", "m", "p">>,
     <<".", "c", "s">>, <<"c", "s", "v">>}

LoadPaths == {path_join(UPLOAD_FOLDER, stem \o ext) : stem \in Stems, ext \in Extensions}

\* two tables a reader may produce: numbers, and text with a missing cell
NumbersTable == DataFrame(<<Column("a", "int64", <<Num(1), Num(3)>>)>>, 2)
TextTable == DataFrame(<<Column("a", "object", <<Str(1), NaN>>)>>, 2)

Bodies == [Parsers -> {ParserError, NumbersTable, TextTable}]

NotCalled == [ret |-> "", value |-> PyNone, error |-> "", cause |-> "", calls |-> <<>>]

InitLoad ==
    /\ load_path \in LoadPaths
    /\ load_body \in Bodies \cup {NoFile}
    /\ load_result = NotCalled
    /\ UploadIdle
    /\ AnalysisIdle
    /\ DemoIdle

Load ==
    /\ load_result = NotCalled
    /\ load_result' = load_data_file(load_path, load_body)
    /\ UNCHANGED <<load_path, load_body, uploadVars, analysisVars, demoVars>>

NextLoad == Load

SpecLoad == InitLoad /\ [][NextLoad]_vars

\* C3: load_data_file called with a path whose extension is not one of csv, xlsx,
\* xls, json, txt fails with a load error carrying a cause message; for every path
\* it either returns a complete table or raises, and never returns a non-table
\* value.
C3_UnsupportedExtensionRaises ==
    load_result # NotCalled =>
        /\ (~has_dot(load_path) \/ lower(rsplit_ext(load_path)) \notin ALLOWED_EXTENSIONS) =>
                load_result.ret = "raise" /\ load_result.cause # ""
        /\ load_result.ret = "return" => load_result.value.type = "DataFrame"

\* C15: for a .txt path load_data_file runs the tab-separated reader first and
\* the space-separated reader only if the tab-separated one raised; it returns
\* the table of the first reader that succeeds, and when both fail it raises the
\* load error instead of returning.
C15_TxtTabThenSpace ==
    (load_result # NotCalled /\ has_dot(load_path)
        /\ lower(rsplit_ext(load_path)) = <<"t", "x", "t">>) =>
        LET tab == read(load_body, "tab")
            space == read(load_body, "space")
        IN  /\ load_result.calls = IF raises(tab) THEN <<"tab", "space">> ELSE <<"tab">>
            /\ ~raises(tab) =>
                    load_result.ret = "return" /\ load_result.value = tab
            /\ (raises(tab) /\ ~raises(space)) =>
                    load_result.ret = "return" /\ load_result.value = space
            /\ (raises(tab) /\ raises(space)) =>
                    /\ load_result.ret = "raise"
                    /\ load_result.error = "ValueError: Error loading file"

\* an upper-case .Txt path whose file the tab-separated reader rejects and the
\* space-separated reader parses: both ran, the second one's table is returned
C15_Witness ==
    /\ load_path = path_join(UPLOAD_FOLDER, <<"a", ".", "T", "x", "t">>)
    /\ raises(read(load_body, "tab"))
    /\ load_result.ret = "return"
    /\ load_result.value = TextTable
    /\ load_result.calls = <<"tab", "space">>

-----------------------------------------------------------------------------
(* werkzeug.utils.secure_filename *)

\* a character outside ASCII that has no ASCII decomposition
NonAscii == "NONASCII"

\* the characters [A-Za-z0-9_.-] that _filename_ascii_strip_re keeps
KeptChars == Range(UpperCase) \cup Range(LowerCase) \cup Range(Digits) \cup {"_", ".", "-"}

\* unicodedata.normalize("NFKD", filename).encode("ascii", "ignore").decode("ascii")
ascii_only(str) == SelectSeq(str, LAMBDA c : c # NonAscii)

\* filename.replace(os.path.sep, " ")
replace_sep(str) == [i \in DOMAIN str |-> IF str[i] = "/" THEN " " ELSE str[i]]

RECURSIVE lstrip(_, _)
\* str.lstrip(chars)
lstrip(str, chars) ==
    IF str # <<>> /\ Head(str) \in chars THEN lstrip(Tail(str), chars) ELSE str

RECURSIVE rstrip(_, _)
\* str.rstrip(chars)
rstrip(str, chars) ==
    IF str # <<>> /\ str[Len(str)] \in chars
    THEN rstrip(SubSeq(str, 1, Len(str) - 1), chars) ELSE str

\* str.strip(chars)
strip(str, chars) == rstrip(lstrip(str, chars), chars)

RECURSIVE first_word(_)
first_word(str) ==
    IF str = <<>> \/ Head(str) = " " THEN <<>> ELSE <<Head(str)>> \o first_word(Tail(str))

RECURSIVE join_split(_)
\* "_".join(filename.split()): the words of the name joined by single underscores
join_split(str) ==
    LET body == lstrip(str, {" "})
        word == first_word(body)
        rest == lstrip(SubSeq(body, Len(word) + 1, Len(body)), {" "})
    IN  IF body = <<>> THEN <<>>
        ELSE IF rest = <<>> THEN word
        ELSE word \o <<"_">> \o join_split(rest)

\* secure_filename(filename) on a POSIX system
secure_filename(filename) ==
    strip(SelectSeq(join_split(replace_sep(ascii_only(filename))),
                    LAMBDA c : c \in KeptChars),
          {".", "_"})

-----------------------------------------------------------------------------
(* upload_file: one handler per request, the requests served by concurrent     *)
(* threads.  The handler is cut at its accesses to the upload folder, the only *)
(* state the requests share.                                                   *)

Requests == {"r1", "r2"}

csv_name == <<"a", ".", "c", "s", "v">>

\* the file names the requests carry
Filenames ==
    {<<>>,
     csv_name,
     <<".", ".", "/">> \o csv_name,
     <<"A", ".", "C", "S", "V">>,
     <<".", "c", "s", "v">>,
     <<"a", ".", "t", "x", "t">>,
     <<"a", ".", "j", "s", "o", "n">>,
     <<"a", ".", "b", "m", "p">>,
     <<"a", " ", "b">>,
     <<NonAscii, ".", "j", "s", "o", "n">>}

\* a table read from JSON records with a nested array in every cell
NestedTable == DataFrame(<<Column("a", "object", <<Nested(1), Nested(1)>>)>>, 2)

\* the uploaded files: one that every reader makes a table of numbers of, one
\* that no reader can parse, and JSON records with nested arrays, which only
\* pd.read_json can parse
UploadBodies ==
    {[p \in Parsers |-> NumbersTable],
     [p \in Parsers |-> ParserError],
     [p \in Parsers |-> IF p = "json" THEN NestedTable ELSE ParserError]}

Absent == [owner |-> "", body |-> NoFile]

\* the paths upload_file can stage a file at
StagedPaths == {path_join(UPLOAD_FOLDER, secure_filename(f)) :
                    f \in {g \in Filenames : allowed_file(g)}}

NoOutcome == [staged |-> FALSE, loaded |-> FALSE, error_stage |-> "",
              characteristics |-> NotExtracted, visualizations |-> NoCharts]

Redirect(target) == [status |-> 302, body |-> target]
Rendered(template) == [status |-> 200, body |-> template]
InternalServerError == [status |-> 500, body |-> "FileNotFoundError"]
NoResponse == [status |-> 0, body |-> ""]

InitUpload ==
    /\ request \in [Requests ->
            {[has_file |-> FALSE, filename |-> <<>>, body |-> NoFile]}
            \cup {[has_file |-> TRUE, filename |-> f, body |-> b] :
                    f \in Filenames, b \in UploadBodies}]
    /\ pc = [r \in Requests |-> "start"]
    /\ filepath = [r \in Requests |-> <<>>]
    /\ df = [r \in Requests |-> PyNone]
    /\ outcome = [r \in Requests |-> NoOutcome]
    /\ flashed = [r \in Requests |-> <<>>]
    /\ response = [r \in Requests |-> NoResponse]
    /\ uploads = [p \in StagedPaths |-> Absent]
    /\ touched = {}
    /\ LoadIdle
    /\ AnalysisIdle
    /\ DemoIdle

\* os.path.exists(filepath)
exists(path) == uploads[path] # Absent

\* the access of request r to the file at its path, when another request staged it
Touch(r, op) ==
    IF exists(filepath[r]) /\ uploads[filepath[r]].owner # r
    THEN {[by |-> r, of |-> uploads[filepath[r]].owner, op |-> op]}
    ELSE {}

\* the empty-filename test left out
no_file_part(req) == ~req.has_file

\* lines 216 and 221: 'file' not in request.files, then file.filename == ''
no_file_selected(req) == ~req.has_file \/ req.filename = <<>>

\* lines 216-227 and 250-251: the checks of the request, then the staging path
Receive(r) ==
    /\ pc[r] = "start"
    /\ IF no_file_selected(request[r])
       THEN /\ flashed' = [flashed EXCEPT ![r] = Append(@, "No file selected")]
            /\ response' = [response EXCEPT ![r] = Redirect("request.url")]
            /\ pc' = [pc EXCEPT ![r] = "done"]
            /\ UNCHANGED filepath
       ELSE IF allowed_file(request[r].filename)
       THEN /\ filepath' = [filepath EXCEPT
                    ![r] = path_join(UPLOAD_FOLDER, secure_filename(request[r].filename))]
            /\ pc' = [pc EXCEPT ![r] = "save"]
            /\ UNCHANGED <<flashed, response>>
       ELSE /\ flashed' = [flashed EXCEPT ![r] = Append(@,
                    "Invalid file type. Please upload CSV, Excel, JSON, or TXT files.")]
            /\ response' = [response EXCEPT ![r] = Redirect("index")]
            /\ pc' = [pc EXCEPT ![r] = "done"]
            /\ UNCHANGED filepath
    /\ UNCHANGED <<request, df, outcome, uploads, touched, loadVars, analysisVars, demoVars>>

\* line 228: file.save(filepath) creates the file or replaces the one at the path
Save(r) ==
    /\ pc[r] = "save"
    /\ uploads' = [uploads EXCEPT ![filepath[r]] = [owner |-> r, body |-> request[r].body]]
    /\ touched' = touched \cup Touch(r, "overwrite")
    /\ outcome' = [outcome EXCEPT ![r].staged = TRUE]
    /\ pc' = [pc EXCEPT ![r] = "load"]
    /\ UNCHANGED <<request, filepath, df, flashed, response, loadVars, analysisVars, demoVars>>

\* line 232: df = load_data_file(filepath) reads whatever file is at the path now
LoadFile(r) ==
    /\ pc[r] = "load"
    /\ LET result == load_data_file(filepath[r], uploads[filepath[r]].body)
       IN  /\ df' = [df EXCEPT ![r] = result.value]
           /\ outcome' = [outcome EXCEPT ![r].loaded = TRUE,
                            ![r].error_stage = IF result.ret = "raise" THEN "load" ELSE @]
           /\ pc' = [pc EXCEPT ![r] = IF result.ret = "raise" THEN "except" ELSE "analyze"]
    /\ touched' = touched \cup Touch(r, "read")
    /\ UNCHANGED <<request, filepath, flashed, response, uploads, loadVars, analysisVars, demoVars>>

\* lines 233-234: characteristics and charts of df, both local to the handler
Analyze(r) ==
    /\ pc[r] = "analyze"
    /\ LET ch == get_data_characteristics(df[r], sort_ties)
       IN  IF ch.raised
           THEN /\ outcome' = [outcome EXCEPT ![r].error_stage = "extract"]
                /\ pc' = [pc EXCEPT ![r] = "except"]
           ELSE /\ outcome' = [outcome EXCEPT ![r].characteristics = ch,
                        ![r].visualizations = create_visualizations(df[r], ch, sort_ties)]
                /\ pc' = [pc EXCEPT ![r] = "remove"]
    /\ UNCHANGED <<request, filepath, df, flashed, response, uploads, touched,
                   loadVars, analysisVars, demoVars>>

\* line 237: os.remove(filepath) removes whatever file is at the path now and
\* raises FileNotFoundError when there is none
Remove(r) ==
    /\ pc[r] = "remove"
    /\ IF exists(filepath[r])
       THEN /\ uploads' = [uploads EXCEPT ![filepath[r]] = Absent]
            /\ pc' = [pc EXCEPT ![r] = "render"]
            /\ UNCHANGED outcome
       ELSE /\ outcome' = [outcome EXCEPT ![r].error_stage = "remove"]
            /\ pc' = [pc EXCEPT ![r] = "except"]
            /\ UNCHANGED uploads
    /\ touched' = touched \cup Touch(r, "delete")
    /\ UNCHANGED <<request, filepath, df, flashed, response, loadVars, analysisVars, demoVars>>

\* lines 239-242: render_template('results.html', ...) returns the page or raises;
\* the template is not part of the sources, so both are possible
Render(r) ==
    /\ pc[r] = "render"
    /\ \/ /\ response' = [response EXCEPT ![r] = Rendered("results.html")]
          /\ pc' = [pc EXCEPT ![r] = "done"]
          /\ UNCHANGED outcome
       \/ /\ outcome' = [outcome EXCEPT ![r].error_stage = "render"]
          /\ pc' = [pc EXCEPT ![r] = "except"]
          /\ UNCHANGED response
    /\ UNCHANGED <<request, filepath, df, flashed, uploads, touched, loadVars, analysisVars, demoVars>>

\* lines 244-246 and 248: flash the error, test os.path.exists(filepath)
Except(r) ==
    /\ pc[r] = "except"
    /\ flashed' = [flashed EXCEPT
            ![r] = Append(@, "Error processing file: " \o outcome[r].error_stage)]
    /\ IF exists(filepath[r])
       THEN /\ pc' = [pc EXCEPT ![r] = "except_remove"]
            /\ UNCHANGED response
       ELSE /\ response' = [response EXCEPT ![r] = Redirect("index")]
            /\ pc' = [pc EXCEPT ![r] = "done"]
    /\ UNCHANGED <<request, filepath, df, outcome, uploads, touched, loadVars, analysisVars, demoVars>>

\* ExceptRemove leaving the file in place
ExceptRemove_keep(r) ==
    /\ pc[r] = "except_remove"
    /\ response' = [response EXCEPT ![r] = Redirect("index")]
    /\ pc' = [pc EXCEPT ![r] = "done"]
    /\ UNCHANGED <<request, filepath, df, outcome, flashed, uploads, touched,
                   loadVars, analysisVars, demoVars>>

\* lines 247-248: os.remove(filepath) in the handler of the exception; when the
\* file went away since the test, FileNotFoundError leaves the view function
ExceptRemove(r) ==
    /\ pc[r] = "except_remove"
    /\ IF exists(filepath[r])
       THEN /\ uploads' = [uploads EXCEPT ![filepath[r]] = Absent]
            /\ response' = [response EXCEPT ![r] = Redirect("index")]
       ELSE /\ response' = [response EXCEPT ![r] = InternalServerError]
            /\ UNCHANGED uploads
    /\ touched' = touched \cup Touch(r, "delete")
    /\ pc' = [pc EXCEPT ![r] = "done"]
    /\ UNCHANGED <<request, filepath, df, outcome, flashed, loadVars, analysisVars, demoVars>>

Next ==
    \E r \in Requests :
        \/ Receive(r)
        \/ Save(r)
        \/ LoadFile(r)
        \/ Analyze(r)
        \/ Remove(r)
        \/ Render(r)
        \/ Except(r)
        \/ ExceptRemove(r)

Init == InitUpload

Spec == Init /\ [][Next]_vars

-----------------------------------------------------------------------------
(* Properties of upload_file *)

\* c is the letter d in either case, d a lower-case letter
SameLetter(c, d) == c = d \/ \E i \in DOMAIN UpperCase : UpperCase[i] = c /\ LowerCase[i] = d

\* the name ends in '.' and one of csv, xlsx, xls, json, txt in any case, with no
\* further '.' inside that ending
PassesExtensionCheck(name) ==
    \E e \in {<<"c", "s", "v">>, <<"x", "l", "s", "x">>, <<"x", "l", "s">>,
              <<"j", "s", "o", "n">>, <<"t", "x", "t">>} :
        /\ Len(name) > Len(e)
        /\ name[Len(name) - Len(e)] = "."
        /\ \A k \in DOMAIN e : SameLetter(name[Len(name) - Len(e) + k], e[k])

FilesOf(r) == {p \in DOMAIN uploads : uploads[p].owner = r}

\* C1: for every upload request whose filename passes the extension check, the
\* file the handler staged no longer exists in the upload folder when the response
\* is returned, whether load, extraction and chart generation all succeeded or any
\* of them, or the rendering that follows, raised.
C1_StagedFileRemoved ==
    \A r \in Requests :
        (pc[r] = "done" /\ request[r].has_file /\ PassesExtensionCheck(request[r].filename)) =>
            /\ outcome[r].staged
            /\ response[r] # NoResponse
            /\ FilesOf(r) = {}

\* one request answered with the results page, the other after its rendering
\* raised, both having staged a file, and the folder empty
C1_Witness ==
    /\ pc["r1"] = "done" /\ pc["r2"] = "done"
    /\ outcome["r1"].staged /\ outcome["r2"].staged
    /\ response["r1"] = Rendered("results.html")
    /\ outcome["r2"].error_stage = "render"
    /\ \A p \in DOMAIN uploads : uploads[p] = Absent

\* C2: when two upload requests are handled concurrently, no interleaving lets one
\* request overwrite, read, or delete the file staged by the other, including when
\* both uploads carry the same (sanitized) filename.
C2_NoInterference == touched = {}

\* C4: an upload whose filename extension (case-insensitively) is not in {csv,
\* xlsx, xls, json, txt}, or whose filename has no dot, is rejected with a
\* user-visible message before any file is staged and before load_data_file is
\* called.
C4_RejectedBeforeStaging ==
    \A r \in Requests :
        (request[r].has_file /\ ~PassesExtensionCheck(request[r].filename)) =>
            /\ pc[r] \in {"start", "done"}
            /\ ~outcome[r].staged /\ ~outcome[r].loaded
            /\ FilesOf(r) = {}
            /\ pc[r] = "done" => /\ Len(flashed[r]) = 1
                                 /\ response[r].status = 302

\* a .bmp upload turned away with the invalid-type message while the other
\* request has a file staged
C4_Witness ==
    /\ request["r1"].filename = <<"a", ".", "b", "m", "p">>
    /\ pc["r1"] = "done"
    /\ flashed["r1"] = <<"Invalid file type. Please upload CSV, Excel, JSON, or TXT files.">>
    /\ response["r1"] = Redirect("index")
    /\ FilesOf("r2") # {}

\* C13: for every table load_data_file returns for an accepted upload, extraction
\* and chart generation complete without raising: no request that got its table
\* from the load step fails in get_data_characteristics or create_visualizations.
C13_AnalysisNeverRaises ==
    \A r \in Requests :
        (outcome[r].loaded /\ df[r].type = "DataFrame") => outcome[r].error_stage # "extract"

\* C14: a request with no file part, or with a file whose filename is empty, gets
\* the 'No file selected' message and no processing: its handler goes from the
\* checks straight to its response, nothing is staged in the upload folder, and
\* neither load nor extraction nor chart generation runs.
C14_NoFileNoProcessing ==
    \A r \in Requests :
        (~request[r].has_file \/ request[r].filename = <<>>) =>
            /\ pc[r] \in {"start", "done"}
            /\ filepath[r] = <<>>
            /\ ~outcome[r].staged /\ ~outcome[r].loaded
            /\ FilesOf(r) = {}
            /\ df[r] = PyNone
            /\ outcome[r].characteristics = NotExtracted
            /\ outcome[r].visualizations = NoCharts
            /\ pc[r] = "done" => /\ flashed[r] = <<"No file selected">>
                                 /\ response[r] = Redirect("request.url")

\* one request without a file part and one with an empty filename, both answered
\* with the message, the folder untouched
C14_Witness ==
    /\ ~request["r1"].has_file
    /\ request["r2"].has_file /\ request["r2"].filename = <<>>
    /\ pc["r1"] = "done" /\ pc["r2"] = "done"
    /\ flashed["r1"] = <<"No file selected">>
    /\ flashed["r2"] = <<"No file selected">>
    /\ \A p \in DOMAIN uploads : uploads[p] = Absent

\* C16: for every filename allowed_file accepts, the staged path built from the
\* sanitized filename has an extension, and that extension, lower-cased as
\* load_data_file reads it, is the one allowed_file accepted.
C16_StagedExtensionIsAcceptedExtension ==
    \A r \in Requests :
        filepath[r] # <<>> =>
            /\ has_dot(filepath[r])
            /\ lower(rsplit_ext(filepath[r])) = lower(rsplit_ext(request[r].filename))

-----------------------------------------------------------------------------
(* Properties of get_data_characteristics *)

Extracted == stage \in {"extracted", "visualized"}
AnalysisRan == stage \in {"extracted", "visualized", "raised"}

\* a table of the data model: every cell a number, a text, a boolean or missing
WellFormed(t) ==
    /\ t.type = "DataFrame"
    /\ \A i \in DOMAIN t.columns : \A r \in DOMAIN t.columns[i].values :
            t.columns[i].values[r].kind # "list"

IsNumeric(col) == col.dtype \in {"int64", "float64"}
IsCategorical(col) == col.dtype \in {"object", "category"}

AllMissing(col) == \A r \in DOMAIN col.values : col.values[r] = NaN

AllNull(e) ==
    /\ e.mean = None /\ e.median = None /\ e.std = None
    /\ e.min = None /\ e.max = None /\ e.q25 = None /\ e.q75 = None
    /\ e.skewness = None /\ e.kurtosis = None

StatsFor(name) == {characteristics.numerical_stats[i] :
                     i \in {j \in DOMAIN characteristics.numerical_stats :
                                characteristics.numerical_stats[j].col = name}}

\* C5: on a table of the data model get_data_characteristics does not raise, and
\* every numeric column with no non-missing value (a column of a zero-row table
\* included) is reported with mean, median, std, min, max, q25, q75, skewness and
\* kurtosis all null.
C5_AllMissingStatsNull ==
    (AnalysisRan /\ WellFormed(table)) =>
        /\ ~characteristics.raised
        /\ \A i \in DOMAIN table.columns :
            (IsNumeric(table.columns[i]) /\ AllMissing(table.columns[i])) =>
                /\ StatsFor(table.columns[i].name) # {}
                /\ \A e \in StatsFor(table.columns[i].name) : AllNull(e)

\* an entirely missing column of two rows beside a column whose mean is a number,
\* both reported
C5_Witness ==
    /\ stage = "extracted"
    /\ table.nrows = 2
    /\ Len(table.columns) = 2
    /\ IsNumeric(table.columns[1]) /\ AllMissing(table.columns[1])
    /\ IsNumeric(table.columns[2])
    /\ AllNull(characteristics.numerical_stats[1])
    /\ characteristics.numerical_stats[2].mean.tag = "float"

\* the percentage a / b * 100 rounded to two decimals: the hundredths nearest to
\* the exact quotient
IsRoundedPercentage(p, a, b) ==
    /\ p.tag = "float" /\ p.den = 100
    /\ 2 * (p.num * b - a * 10000) <= b
    /\ 2 * (a * 10000 - p.num * b) <= b

MissingCells(col) == Cardinality({r \in DOMAIN col.values : col.values[r] = NaN})

\* C6: for every column the reported missing percentage is
\* round(missing_count / row_count * 100, 2), and 0.0 for every column of a table
\* with zero rows.
C6_MissingPercentage ==
    Extracted =>
        /\ Len(characteristics.missing_data.missing_percentages) = Len(table.columns)
        /\ \A i \in DOMAIN table.columns :
            LET e == characteristics.missing_data.missing_percentages[i]
            IN  /\ e.col = table.columns[i].name
                /\ IF table.nrows = 0 THEN e.percentage = Frac(0, 100)
                   ELSE IsRoundedPercentage(e.percentage,
                                            MissingCells(table.columns[i]), table.nrows)

\* the first position of a cell in a column
FirstSeen(col, c) == CHOOSE r \in DOMAIN col.values :
                        /\ col.values[r] = c
                        /\ \A q \in DOMAIN col.values : col.values[q] = c => r <= q

Occurrences(col, c) == Cardinality({r \in DOMAIN col.values : col.values[r] = c})

Present(col) == {col.values[r] : r \in DOMAIN col.values} \ {NaN}

CatStatsFor(name) == {characteristics.categorical_stats[i] :
                        i \in {j \in DOMAIN characteristics.categorical_stats :
                                   characteristics.categorical_stats[j].col = name}}

\* a top-10 table of a column: at most 10 entries, each a distinct non-missing
\* value with its number of occurrences, no value left out that occurs more often
\* than one kept, all values kept when there are at most 10, by descending count
IsTopTen(vc, col) ==
    /\ Len(vc) <= 10
    /\ Len(vc) = Min(Cardinality(Present(col)), 10)
    /\ \A i \in DOMAIN vc : vc[i].value \in Present(col)
                            /\ vc[i].count = Occurrences(col, vc[i].value)
    /\ \A i, j \in DOMAIN vc : i # j => vc[i].value # vc[j].value
    /\ \A c \in Present(col) \ {vc[i].value : i \in DOMAIN vc} :
            \A i \in DOMAIN vc : Occurrences(col, c) <= vc[i].count
    /\ \A i, j \in DOMAIN vc : i < j => vc[i].count >= vc[j].count

\* equal counts in the order of first occurrence in the column
TiesByFirstSeen(vc, col) ==
    \A i, j \in DOMAIN vc :
        (i < j /\ vc[i].count = vc[j].count) =>
            FirstSeen(col, vc[i].value) < FirstSeen(col, vc[j].value)

\* C7 as stated: the value_counts table of every categorical column has at most
\* 10 entries, holds the 10 most frequent non-missing values, and is ordered by
\* descending count with equal counts in the order of first occurrence.
C7_TopTenTiesByFirstSeen ==
    Extracted =>
        \A i \in DOMAIN table.columns : IsCategorical(table.columns[i]) =>
            /\ CatStatsFor(table.columns[i].name) # {}
            /\ \A e \in CatStatsFor(table.columns[i].name) :
                /\ IsTopTen(e.value_counts, table.columns[i])
                /\ TiesByFirstSeen(e.value_counts, table.columns[i])

\* C7 amended: the value_counts table of every categorical column has at most 10
\* entries, holds 10 most frequent non-missing values when more than 10 distinct
\* ones exist (no value left out occurs more often than one kept), and is ordered by
\* descending count; the order among equal counts is not determined.
C7_TopTenDescending ==
    Extracted =>
        \A i \in DOMAIN table.columns : IsCategorical(table.columns[i]) =>
            /\ CatStatsFor(table.columns[i].name) # {}
            /\ \A e \in CatStatsFor(table.columns[i].name) :
                IsTopTen(e.value_counts, table.columns[i])

\* more than 10 distinct values, one of them occurring three times and leading a
\* table of exactly 10 entries whose other counts are tied
C7_Witness ==
    /\ stage = "extracted"
    /\ Len(table.columns) = 1
    /\ IsCategorical(table.columns[1])
    /\ Cardinality(Present(table.columns[1])) > 10
    /\ Len(characteristics.categorical_stats[1].value_counts) = 10
    /\ characteristics.categorical_stats[1].value_counts[1].count = 3
    /\ characteristics.categorical_stats[1].value_counts[2].count = 1

\* every non-missing cell of the column is a number
OnlyNumbers(col) ==
    \A r \in DOMAIN col.values : col.values[r] # NaN => col.values[r].kind = "num"

\* C12: every column of the table is classified as numeric or categorical: its
\* name is a key of exactly one of numerical_stats and categorical_stats, and it
\* is a key of numerical_stats iff every non-missing value in it is a number.
C12_EveryColumnClassifiedOnce ==
    Extracted =>
        \A i \in DOMAIN table.columns :
            LET name == table.columns[i].name
            IN  /\ Cardinality(StatsFor(name)) + Cardinality(CatStatsFor(name)) = 1
                /\ StatsFor(name) # {} <=> OnlyNumbers(table.columns[i])

-----------------------------------------------------------------------------
(* Properties of create_visualizations *)

NumericPositions(t) == {i \in DOMAIN t.columns : IsNumeric(t.columns[i])}
CategoricalPositions(t) == {i \in DOMAIN t.columns : IsCategorical(t.columns[i])}

AllSlots == {"summary_stats", "distributions", "correlation", "boxplots",
             "categorical", "scatter_matrix"}

\* C8: each slot of the returned mapping is present exactly when its precondition
\* holds: summary_stats, distributions and boxplots iff there is at least 1
\* numeric column; correlation and scatter_matrix iff there are at least 2;
\* categorical iff there is at least 1 categorical column.
C8_SlotsMatchPreconditions ==
    stage = "visualized" =>
        LET n == Cardinality(NumericPositions(table))
            c == Cardinality(CategoricalPositions(table))
            present == DOMAIN visualizations
        IN  /\ present \subseteq AllSlots
            /\ "summary_stats" \in present <=> n >= 1
            /\ "distributions" \in present <=> n >= 1
            /\ "boxplots" \in present <=> n >= 1
            /\ "correlation" \in present <=> n >= 2
            /\ "scatter_matrix" \in present <=> n >= 2
            /\ "categorical" \in present <=> c >= 1

\* exactly one numeric column and no categorical one: three slots of the six
C8_Witness ==
    /\ stage = "visualized"
    /\ Cardinality(NumericPositions(table)) = 1
    /\ Len(table.columns) = 2
    /\ DOMAIN visualizations = {"summary_stats", "distributions", "boxplots"}

\* the position in the table of its k-th numeric column
NthNumeric(t, k) == CHOOSE i \in NumericPositions(t) :
                        Cardinality({j \in NumericPositions(t) : j <= i}) = k

\* the names of a figure's series are those of the first numeric columns, `cap`
\* of them at most, in the table's column order
FirstNumeric(names, t, cap) ==
    /\ Len(names) = Min(Cardinality(NumericPositions(t)), cap)
    /\ \A k \in DOMAIN names : names[k] = t.columns[NthNumeric(t, k)].name

SeriesNames(fig) == [k \in DOMAIN fig.traces |-> fig.traces[k].name]

\* C10: with n numeric columns summary_stats has min(n,5) series, distributions
\* min(n,3), boxplots min(n,4) and scatter_matrix min(n,3) dimensions, each the
\* first numeric columns in the table's column order; the categorical chart uses
\* the first categorical column in that order.
C10_FirstColumnsUpToCaps ==
    stage = "visualized" =>
        /\ "summary_stats" \in DOMAIN visualizations =>
            FirstNumeric(SeriesNames(visualizations["summary_stats"]), table, 5)
        /\ "distributions" \in DOMAIN visualizations =>
            FirstNumeric(SeriesNames(visualizations["distributions"]), table, 3)
        /\ "boxplots" \in DOMAIN visualizations =>
            FirstNumeric(SeriesNames(visualizations["boxplots"]), table, 4)
        /\ "scatter_matrix" \in DOMAIN visualizations =>
            FirstNumeric([k \in DOMAIN visualizations["scatter_matrix"].dimensions |->
                            visualizations["scatter_matrix"].dimensions[k].label], table, 3)
        /\ "categorical" \in DOMAIN visualizations =>
            \E i \in CategoricalPositions(table) :
                /\ \A j \in CategoricalPositions(table) : i <= j
                /\ visualizations["categorical"].title = table.columns[i].name

\* six numeric columns behind a leading categorical one: every cap cuts, and the
\* first numeric column is not the first column of the table
C10_Witness ==
    /\ stage = "visualized"
    /\ Cardinality(NumericPositions(table)) = 6
    /\ 1 \in CategoricalPositions(table)
    /\ visualizations["categorical"].title = "a"
    /\ SeriesNames(visualizations["summary_stats"]) = <<"b", "c", "d", "e", "f">>
    /\ SeriesNames(visualizations["boxplots"]) = <<"b", "c", "d", "e">>
    /\ SeriesNames(visualizations["distributions"]) = <<"b", "c", "d">>
    /\ Len(visualizations["scatter_matrix"].dimensions) = 3

IsNumber(f) == f.tag \notin {"None", "nan"}

\* the data points a figure carries: bars with a height, histogram and box
\* samples, heatmap cells with a value, rows of the scatter matrix
DataPoints(slot, fig) ==
    CASE slot = "summary_stats" ->
            SeqSum([k \in DOMAIN fig.traces |->
                Cardinality({m \in DOMAIN fig.traces[k].y : IsNumber(fig.traces[k].y[m])})])
      [] slot = "distributions" -> SeqSum([k \in DOMAIN fig.traces |-> Len(fig.traces[k].x)])
      [] slot = "boxplots" -> SeqSum([k \in DOMAIN fig.traces |-> Len(fig.traces[k].y)])
      [] slot = "categorical" -> SeqSum([k \in DOMAIN fig.traces |-> Len(fig.traces[k].x)])
      [] slot = "correlation" ->
            Cardinality({ij \in (DOMAIN fig.z) \X (DOMAIN fig.z) :
                            IsNumber(fig.z[ij[1]][ij[2]])})
      [] slot = "scatter_matrix" -> Len(fig.rows)

\* the series a figure has: traces, heatmap rows, scatter dimensions
NumSeries(slot, fig) ==
    CASE slot = "correlation" -> Len(fig.z)
      [] slot = "scatter_matrix" -> Len(fig.dimensions)
      [] OTHER -> Len(fig.traces)

HasValue(col) == \E r \in DOMAIN col.values : col.values[r] # NaN

FirstNumericPositions(t, cap) ==
    {i \in NumericPositions(t) : Cardinality({j \in NumericPositions(t) : j <= i}) <= cap}

\* whether the columns a slot draws hold anything to plot
HasData(slot, t) ==
    CASE slot = "summary_stats" ->
            \E i \in FirstNumericPositions(t, 5) : HasValue(t.columns[i])
      [] slot = "distributions" ->
            \E i \in FirstNumericPositions(t, 3) : HasValue(t.columns[i])
      [] slot = "boxplots" ->
            \E i \in FirstNumericPositions(t, 4) : HasValue(t.columns[i])
      [] slot = "categorical" ->
            \E i \in CategoricalPositions(t) :
                /\ \A j \in CategoricalPositions(t) : i <= j
                /\ HasValue(t.columns[i])
      [] slot = "correlation" ->
            \E i \in NumericPositions(t) : \E r, q \in DOMAIN t.columns[i].values :
                /\ t.columns[i].values[r] # NaN /\ t.columns[i].values[q] # NaN
                /\ t.columns[i].values[r] # t.columns[i].values[q]
      [] slot = "scatter_matrix" ->
            \E r \in 1..t.nrows : \A i \in FirstNumericPositions(t, 3) :
                t.columns[i].values[r] # NaN

\* C11: the scatter matrix is built from exactly the rows with no missing value
\* in any of the first 3 numeric columns (the first 2 when there are only 2), in
\* the table's row order, each dimension holding its column's cells of those
\* rows; a missing value in any other column does not exclude a row.
C11_ScatterRowsCompleteInUsedColumns ==
    (stage = "visualized" /\ "scatter_matrix" \in DOMAIN visualizations) =>
        LET fig == visualizations["scatter_matrix"]
            used == FirstNumericPositions(table, 3)
            kept == {r \in 1..table.nrows :
                        \A i \in used : table.columns[i].values[r] # NaN}
        IN  /\ Range(fig.rows) = kept
            /\ Len(fig.rows) = Cardinality(kept)
            /\ \A k, m \in DOMAIN fig.rows : k < m => fig.rows[k] < fig.rows[m]
            /\ \A d \in DOMAIN fig.dimensions :
                    fig.dimensions[d].values =
                        [k \in DOMAIN fig.rows |->
                            table.columns[NthNumeric(table, d)].values[fig.rows[k]]]

\* four numeric columns of two rows: the first row misses its value in the
\* fourth column only and is kept, the second row misses a value in one of the
\* first three and is dropped
C11_Witness ==
    /\ stage = "visualized"
    /\ table.nrows = 2
    /\ Cardinality(NumericPositions(table)) = 4
    /\ table.columns[4].values[1] = NaN
    /\ table.columns[2].values[2] = NaN
    /\ visualizations["scatter_matrix"].rows = <<1>>
    /\ Len(visualizations["scatter_matrix"].dimensions) = 3

\* C9 as stated: every chart in the returned mapping carries at least one data
\* point, also for tables whose numeric columns are entirely missing, whose
\* categorical column is entirely missing, or that have zero rows.
C9_NoEmptyChart ==
    stage = "visualized" =>
        \A slot \in DOMAIN visualizations : DataPoints(slot, visualizations[slot]) >= 1

\* C9 amended: every chart in the returned mapping has at least one series, and
\* it carries a data point exactly when the columns it draws hold one: a chart
\* whose numeric columns are entirely missing, whose categorical column is
\* entirely missing, or whose table has zero rows is emitted without data points.
C9_EmptyOnlyWithoutData ==
    stage = "visualized" =>
        \A slot \in DOMAIN visualizations :
            /\ NumSeries(slot, visualizations[slot]) >= 1
            /\ DataPoints(slot, visualizations[slot]) >= 1 <=> HasData(slot, table)

\* a table of two rows with an entirely missing numeric column beside a numeric
\* column with values: the histogram has points, the scatter matrix has none
C9_Witness ==
    /\ stage = "visualized"
    /\ table.nrows = 2
    /\ Cardinality(NumericPositions(table)) = 2
    /\ \E i \in NumericPositions(table) : AllMissing(table.columns[i])
    /\ DataPoints("distributions", visualizations["distributions"]) = 2
    /\ DataPoints("scatter_matrix", visualizations["scatter_matrix"]) = 0
    /\ DataPoints("correlation", visualizations["correlation"]) = 1

-----------------------------------------------------------------------------
(* demo_server.py: StatisticalServer answering one GET request *)

\* str.startswith(prefix)
startswith(str, prefix) ==
    Len(str) >= Len(prefix) /\ SubSeq(str, 1, Len(prefix)) = prefix

\* str.endswith(suffix)
endswith(str, suffix) ==
    Len(str) >= Len(suffix) /\ SubSeq(str, Len(str) - Len(suffix) + 1, Len(str)) = suffix

\* self.path[1:]
drop_first(str) == SubSeq(str, 2, Len(str))

index_html == <<"/", "i", "n", "d", "e", "x", ".", "h", "t", "m", "l">>
demo_index_html == <<"d", "e", "m", "o", "_", "i", "n", "d", "e", "x", ".", "h", "t", "m", "l">>
demo_results_html == <<"d", "e", "m", "o", "_", "r", "e", "s", "u", "l", "t", "s", ".", "h", "t", "m", "l">>
demo_prefix == <<"d", "e", "m", "o", "_">>
css_suffix == <<".", "c", "s", "s">>
js_suffix == <<".", "j", "s">>

\* the pages get_demo_index() and get_demo_results() return, both non-empty
get_demo_index == "demo index page"
get_demo_results == "demo results page"

\* generate_demo_content(filename): one of the two pages, or the empty string
generate_demo_content(filename) ==
    IF filename = demo_index_html THEN get_demo_index
    ELSE IF filename = demo_results_html THEN get_demo_results
    ELSE ""

\* an entry of the working directory: nothing, a directory, or a file with its
\* content
NoEntry == [kind |-> "none", content |-> ""]
Directory == [kind |-> "dir", content |-> ""]
RegularFile(content) == [kind |-> "file", content |-> content]

\* open(filename, 'rb') and f.read(): the content of a file; FileNotFoundError
\* when nothing has the name, IsADirectoryError when a directory has it
open_read(fs, filename) ==
    IF filename \notin DOMAIN fs \/ fs[filename].kind = "none"
    THEN [raised |-> "FileNotFoundError", content |-> ""]
    ELSE IF fs[filename].kind = "dir"
    THEN [raised |-> "IsADirectoryError", content |-> ""]
    ELSE [raised |-> "", content |-> fs[filename].content]

\* send_response(200), send_header, end_headers, wfile.write(content)
Ok(content_type, content) == [status |-> 200, content_type |-> content_type, body |-> content]

\* send_error(404): the error page of http.server
NotFound == [status |-> 404, content_type |-> "text/html;charset=utf-8", body |-> "error page"]

\* an exception other than FileNotFoundError leaves do_GET: nothing is sent
Unanswered(exception) == [status |-> 0, content_type |-> "", body |-> exception]

NotReplied == [status |-> 0, content_type |-> "", body |-> ""]

\* serve_file(filename, content_type)
serve_file(fs, filename, content_type) ==
    IF startswith(filename, demo_prefix)
    THEN Ok(content_type, generate_demo_content(filename))
    ELSE LET f == open_read(fs, filename)
         IN  IF f.raised = "" THEN Ok(content_type, f.content)
             ELSE IF f.raised = "FileNotFoundError" THEN NotFound
             ELSE Unanswered(f.raised)

\* do_GET, from self.path to what is sent
do_GET(fs, path) ==
    IF path = <<"/">> \/ path = index_html THEN serve_file(fs, demo_index_html, "text/html")
    ELSE IF path = <<"/", "d", "e", "m", "o">>
    THEN serve_file(fs, demo_results_html, "text/html")
    ELSE IF endswith(path, css_suffix) THEN serve_file(fs, drop_first(path), "text/css")
    ELSE IF endswith(path, js_suffix)
    THEN serve_file(fs, drop_first(path), "application/javascript")
    ELSE NotFound

\* the paths requested
GetPaths ==
    {<<"/">>,
     <<"/", "i", "n", "d", "e", "x", ".", "h", "t", "m", "l">>,
     <<"/", "d", "e", "m", "o">>,
     <<"/", "d", "e", "m", "o", "/">>,
     <<"/", "i", "n", "d", "e", "x", ".", "h", "t", "m", "l", "?", "v">>,
     <<"/", "d", "e", "m", "o", "_", "i", "n", "d", "e", "x", ".", "h", "t", "m", "l">>,
     <<"/", "p", "a", "g", "e", ".", "h", "t", "m", "l">>,
     <<"/", "s", "t", "y", "l", "e", ".", "c", "s", "s">>,
     <<"/", "s", "c", "r", "i", "p", "t", ".", "j", "s">>,
     <<"/", "S", "T", "Y", "L", "E", ".", "C", "S", "S">>,
     <<"/", "s", "t", "y", "l", "e", ".", "c", "s", "s", "?", "v">>,
     <<"/", "d", "e", "m", "o", "_", ".", "c", "s", "s">>,
     <<"/", "d", "e", "m", "o", "_", ".", "j", "s">>,
     <<"/", "s", "t", "a", "t", "i", "c", "/", "s", "t", "y", "l", "e", ".", "c", "s", "s">>}

\* the names the working directory may hold something under
FileNames ==
    {<<"s", "t", "y", "l", "e", ".", "c", "s", "s">>,
     <<"s", "c", "r", "i", "p", "t", ".", "j", "s">>,
     <<"d", "e", "m", "o", "_", ".", "c", "s", "s">>,
     <<"d", "e", "m", "o", "_", ".", "j", "s">>,
     <<"s", "t", "a", "t", "i", "c", "/", "s", "t", "y", "l", "e", ".", "c", "s", "s">>}

FileEntries == {NoEntry, Directory, RegularFile(""), RegularFile("text")}

InitDemo ==
    /\ get_path \in GetPaths
    /\ files \in [FileNames -> FileEntries]
    /\ reply = NotReplied
    /\ UploadIdle
    /\ LoadIdle
    /\ AnalysisIdle

Get ==
    /\ reply = NotReplied
    /\ reply' = do_GET(files, get_path)
    /\ UNCHANGED <<get_path, files, uploadVars, loadVars, analysisVars>>

NextDemo == Get

SpecDemo == InitDemo /\ [][NextDemo]_vars

\* the path names a file of the working directory
NamesExistingFile(path) ==
    /\ drop_first(path) \in DOMAIN files
    /\ files[drop_first(path)].kind = "file"

\* the paths the server is to answer with 200
Served(path) ==
    \/ path \in {<<"/">>, index_html, <<"/", "d", "e", "m", "o">>}
    \/ /\ endswith(path, css_suffix) \/ endswith(path, js_suffix)
       /\ NamesExistingFile(path)

\* C17: a GET request gets a 200 response only when its path is '/',
\* '/index.html' or '/demo', answered with the generated page, or ends in .css or
\* .js and names an existing file; every other path, a .css or .js path with no
\* such file included, gets a 404 and never a 200 with an empty body.
C17_OkOnlyForPagesAndExistingFiles ==
    reply # NotReplied =>
        /\ reply.status = 200 => Served(get_path)
        /\ get_path \in {<<"/">>, index_html} => reply = Ok("text/html", get_demo_index)
        /\ get_path = <<"/", "d", "e", "m", "o">> => reply = Ok("text/html", get_demo_results)
        /\ ~Served(get_path) => reply.status = 404
        /\ ~Served(get_path) => ~(reply.status = 200 /\ reply.body = "")
=============================================================================
